---------------------------- MODULE Spec2Model ----------------------------
(***************************************************************************)
(* Model of the CloudFront client routing library (Rust):                  *)
(*   src/src/bitwise.rs, client_routing_label.rs, encode_decode.rs,        *)
(*   ip.rs, hash.rs, lib.rs.                                               *)
(*                                                                         *)
(* Representation.  TLC integers are 32 bits wide, so a u64 / u128 word is *)
(* the SET OF ITS SET BIT POSITIONS: {0, 3} is 0b1001 = 9, {} is 0 and     *)
(* 0..63 is u64::MAX.  Bitwise AND is \cap, OR is \cup, a shift moves the  *)
(* positions and drops those that leave the word.  u8 quantities (widths,  *)
(* counters, the accumulator, label bytes) are integers 0..255; u8         *)
(* arithmetic wraps (release build) and the wrap is recorded as the fault  *)
(* "overflow" (the debug build panics there).  An out-of-range slice index *)
(* panics in every build and is recorded as the fault "index".             *)
(***************************************************************************)
EXTENDS Integers, Sequences, FiniteSets, TLC

VARIABLES
    pc,              \* which call of the scenario ran last
    encodable_data,  \* the field list the calls mutate in place
    given,           \* the scenario's inputs, as the caller built them
    label,           \* the token (bytes) produced by encode / handed to decode
    result           \* what the last call returned

vars == <<pc, encodable_data, given, label, result>>

(***************************************************************************)
(* Bounds of the model.                                                    *)
(***************************************************************************)
MaxFields == 3       \* longest generic field list
MaxTotalBits == 7    \* largest total width of a generic field list

(***************************************************************************)
(* Words as bit sets.                                                      *)
(***************************************************************************)
U64Bits == 0..63
U128Bits == 0..127

Pow2(n) == 2^n

\* u8 wrap-around of an integer result
U8(n) == n % 256

\* the u8 operation left 0..255 (debug build: "attempt to ... with overflow")
Wraps(n) == n < 0 \/ n > 255

Bit(w, i) == IF i \in w THEN 1 ELSE 0

\* `x as u8` of a word: its low 8 bits as an integer
AsU8(w) ==
    Bit(w, 0) + 2 * Bit(w, 1) + 4 * Bit(w, 2) + 8 * Bit(w, 3)
    + 16 * Bit(w, 4) + 32 * Bit(w, 5) + 64 * Bit(w, 6) + 128 * Bit(w, 7)

\* `x as u64` / `x as u128` of a u8
OfU8(n) == {i \in 0..7 : (n \div Pow2(i)) % 2 = 1}

\* a non-negative integer below 2^31 as a word
OfNat(n) == {i \in 0..30 : (n \div Pow2(i)) % 2 = 1}

\* shifts of a word of the given width; Rust masks the shift amount to the
\* width in a release build (and panics in a debug build when it is >= width)
Shl(w, k, width) == {i + (k % width) : i \in w} \cap (0..(width - 1))
Shr(w, k, width) == {i - (k % width) : i \in {j \in w : j >= k % width}}

(***************************************************************************)
(* bitwise.rs                                                              *)
(***************************************************************************)
\* x - 1 on a u128 (wrapping): the lowest set bit is cleared and every bit
\* below it is set
Dec128(w) ==
    IF w = {}
    THEN U128Bits
    ELSE LET low == CHOOSE i \in w : \A j \in w : i <= j
         IN  (w \ {low}) \cup (0..(low - 1))

\* variant: the shift done on a u64, ((1_u64 << num_bits) - 1)
get_mask_u64_shift(num_bits) == Dec128(Shl({0}, num_bits, 64)) \cap U64Bits

\* ((1_u128 << num_bits) - 1) as u64; the cast keeps bits 0..63
get_mask(num_bits) == Dec128(Shl({0}, num_bits, 128)) \cap U64Bits

get_mask_faults(num_bits) == IF num_bits >= 128 THEN {"overflow"} ELSE {}

(***************************************************************************)
(* client_routing_label.rs: EncodableData                                  *)
(***************************************************************************)
EncodableData(v, n) == [value |-> v, num_bits |-> n]

\* variant: the bits are taken from the low end of the value
get_next_bits_low_end(self, num_bits_needed) ==
    LET nb == U8(self.num_bits - num_bits_needed)
    IN  [data |-> EncodableData(Shr(self.value, num_bits_needed, 64), nb),
         bits |-> AsU8(self.value \cap get_mask(num_bits_needed)),
         faults |-> (IF Wraps(self.num_bits - num_bits_needed) \/ nb >= 128
                     THEN {"overflow"} ELSE {})
                    \cup get_mask_faults(num_bits_needed)]

\* variant: the value keeps the bits that were handed out
get_next_bits_keep_value(self, num_bits_needed) ==
    LET nb == U8(self.num_bits - num_bits_needed)
        mask == Shl(get_mask(num_bits_needed), nb, 128)
        bits_to_encode == Shr(self.value \cap mask, nb, 128)
    IN  [data |-> EncodableData(self.value, nb),
         bits |-> AsU8(bits_to_encode),
         faults |-> (IF Wraps(self.num_bits - num_bits_needed) \/ nb >= 128
                     THEN {"overflow"} ELSE {})
                    \cup get_mask_faults(num_bits_needed)]

\* returns [data: the field afterwards, bits: the u8 returned, faults]
get_next_bits_to_encode(self, num_bits_needed) ==
    LET nb == U8(self.num_bits - num_bits_needed)
        mask == Shl(get_mask(num_bits_needed), nb, 128)
        bits_to_encode == Shr(self.value \cap mask, nb, 128)
    IN  [data |-> EncodableData(self.value \cap get_mask(nb), nb),
         bits |-> AsU8(bits_to_encode),
         faults |-> (IF Wraps(self.num_bits - num_bits_needed) \/ nb >= 128
                     THEN {"overflow"} ELSE {})
                    \cup get_mask_faults(num_bits_needed)]

has_bits_for_char(self, num_bits_in_char) == self.num_bits >= num_bits_in_char

\* add_bits without the left shift of the accumulated value
add_bits_no_shift(self, num_bits_to_add, value_to_add) ==
    [data |-> EncodableData(self.value \cup OfU8(value_to_add),
                            U8(self.num_bits - num_bits_to_add)),
     faults |-> {}]

\* variant: num_bits is not decremented
add_bits_keep_num_bits(self, num_bits_to_add, value_to_add) ==
    [data |-> EncodableData(
                 Shl(self.value, num_bits_to_add, 64) \cup OfU8(value_to_add),
                 self.num_bits),
     faults |-> IF num_bits_to_add >= 64 THEN {"overflow"} ELSE {}]

\* returns [data: the field afterwards, faults]
add_bits(self, num_bits_to_add, value_to_add) ==
    [data |-> EncodableData(
                 Shl(self.value, num_bits_to_add, 64) \cup OfU8(value_to_add),
                 U8(self.num_bits - num_bits_to_add)),
     faults |-> IF Wraps(self.num_bits - num_bits_to_add) \/ num_bits_to_add >= 64
                THEN {"overflow"} ELSE {}]

(***************************************************************************)
(* encode_decode.rs: constants                                             *)
(***************************************************************************)
\* variant: the upper-case letters
BASE32_ALPHABET_upper == [i \in 1..32 |-> IF i <= 26 THEN 64 + i ELSE 23 + i]

\* b"abcdefghijklmnopqrstuvwxyz234567" as bytes
BASE32_ALPHABET == [i \in 1..32 |-> IF i <= 26 THEN 96 + i ELSE 23 + i]
BASE32_NUM_BITS_IN_CHAR == 5

\* BASE32_ALPHABET[i as usize]; past the end the index panics (byte 0 stands in)
AlphabetAt(i) == IF i < 32 THEN BASE32_ALPHABET[i + 1] ELSE 0

(***************************************************************************)
(* encode_decode.rs: Base32::encode                                        *)
(*                                                                         *)
(* The loop state: data (the field being read), value_to_encode,           *)
(* num_bits_left_over, encoded_data, faults, and emitted: for every push,  *)
(* the accumulator used as the index and the leftover count before it.     *)
(***************************************************************************)
\* line 59: the bits the while loop asks the field for
EncodeNeed(st) == U8(BASE32_NUM_BITS_IN_CHAR - st.num_bits_left_over)

\* lines 60-64: one iteration of the while loop
EncodeIter(st) ==
    LET g == get_next_bits_to_encode(st.data, EncodeNeed(st))
        v == U8(st.value_to_encode + g.bits)
    IN  [data |-> g.data,
         value_to_encode |-> 0,
         num_bits_left_over |-> 0,
         encoded_data |-> Append(st.encoded_data, AlphabetAt(v)),
         emitted |-> Append(st.emitted,
                            [acc |-> v, left_over |-> st.num_bits_left_over]),
         faults |-> st.faults \cup g.faults
            \cup (IF Wraps(BASE32_NUM_BITS_IN_CHAR - st.num_bits_left_over)
                     \/ Wraps(st.value_to_encode + g.bits)
                  THEN {"overflow"} ELSE {})
            \cup (IF v >= 32 THEN {"index"} ELSE {})]

\* lines 59-65
RECURSIVE EncodeWhile(_)
EncodeWhile(st) ==
    IF has_bits_for_char(st.data, EncodeNeed(st))
    THEN EncodeWhile(EncodeIter(st))
    ELSE st

\* the fold without the shift that aligns the bits below the pending ones
EncodeFold_no_align(st) ==
    LET value_mask == get_mask(BASE32_NUM_BITS_IN_CHAR)
        part == AsU8(st.data.value \cap value_mask)
    IN  [st EXCEPT
           !.value_to_encode = AsU8(OfU8(st.value_to_encode) \cup OfU8(part)),
           !.num_bits_left_over = U8(st.num_bits_left_over + st.data.num_bits)]

\* the fold without `& value_mask`
EncodeFold_no_mask(st) ==
    LET sum == U8(st.data.num_bits + st.num_bits_left_over)
        sh == U8(BASE32_NUM_BITS_IN_CHAR - sum)
        part == AsU8(Shl(st.data.value, sh, 64))
    IN  [st EXCEPT
           !.value_to_encode = AsU8(OfU8(st.value_to_encode) \cup OfU8(part)),
           !.num_bits_left_over = U8(st.num_bits_left_over + st.data.num_bits),
           !.faults = st.faults]

\* lines 67-68: fold what is left of the field into the accumulator
EncodeFold(st) ==
    LET sum == U8(st.data.num_bits + st.num_bits_left_over)
        sh == U8(BASE32_NUM_BITS_IN_CHAR - sum)
        value_mask == get_mask(BASE32_NUM_BITS_IN_CHAR)
        part == AsU8(Shl(st.data.value, sh, 64) \cap value_mask)
    IN  [st EXCEPT
           !.value_to_encode = AsU8(OfU8(st.value_to_encode) \cup OfU8(part)),
           !.num_bits_left_over = U8(st.num_bits_left_over + st.data.num_bits),
           !.faults = st.faults
              \cup (IF Wraps(st.data.num_bits + st.num_bits_left_over)
                       \/ Wraps(BASE32_NUM_BITS_IN_CHAR - sum) \/ sh >= 64
                    THEN {"overflow"} ELSE {})]

\* the body of `for data in encodable_data.iter_mut()` for field i
RECURSIVE EncodeFor(_, _, _)
EncodeFor(fields, i, st) ==
    IF i > Len(fields)
    THEN [data |-> fields, st |-> st]
    ELSE LET s == EncodeFold(EncodeWhile([st EXCEPT !.data = fields[i]]))
         IN  EncodeFor([fields EXCEPT ![i] = s.data], i + 1, s)

\* encode pushing the last character whenever the accumulator is non-zero
\* (instead of whenever bits are left over)
Base32_encode_tail_if_nonzero(fields) ==
    LET r == EncodeFor(fields, 1,
                 [data |-> EncodableData({}, 0),
                  value_to_encode |-> 0,
                  num_bits_left_over |-> 0,
                  encoded_data |-> <<>>,
                  emitted |-> <<>>,
                  faults |-> {}])
        last == r.st.value_to_encode > 0
    IN  [data |-> r.data,
         token |-> IF last
                   THEN Append(r.st.encoded_data, AlphabetAt(r.st.value_to_encode))
                   ELSE r.st.encoded_data,
         emitted |-> IF last
                     THEN Append(r.st.emitted,
                                 [acc |-> r.st.value_to_encode,
                                  left_over |-> r.st.num_bits_left_over])
                     ELSE r.st.emitted,
         faults |-> r.st.faults]

\* returns [data: the list afterwards, token: the String as bytes, emitted, faults]
Base32_encode(fields) ==
    LET r == EncodeFor(fields, 1,
                 [data |-> EncodableData({}, 0),
                  value_to_encode |-> 0,
                  num_bits_left_over |-> 0,
                  encoded_data |-> <<>>,
                  emitted |-> <<>>,
                  faults |-> {}])
        last == r.st.num_bits_left_over > 0
    IN  [data |-> r.data,
         token |-> IF last
                   THEN Append(r.st.encoded_data, AlphabetAt(r.st.value_to_encode))
                   ELSE r.st.encoded_data,
         emitted |-> IF last
                     THEN Append(r.st.emitted,
                                 [acc |-> r.st.value_to_encode,
                                  left_over |-> r.st.num_bits_left_over])
                     ELSE r.st.emitted,
         faults |-> r.st.faults
                    \cup (IF last /\ r.st.value_to_encode >= 32
                          THEN {"index"} ELSE {})]

(***************************************************************************)
(* encode_decode.rs: Base32::is_valid_client_routing_label                 *)
(***************************************************************************)
\* (total_num_bits + BASE32_NUM_BITS_IN_CHAR - 1) / BASE32_NUM_BITS_IN_CHAR in u8
ExpectedNumChars(total_num_bits) ==
    U8(U8(total_num_bits + BASE32_NUM_BITS_IN_CHAR) - 1) \div BASE32_NUM_BITS_IN_CHAR

ExpectedNumCharsFaults(total_num_bits) ==
    IF Wraps(total_num_bits + BASE32_NUM_BITS_IN_CHAR)
       \/ Wraps(U8(total_num_bits + BASE32_NUM_BITS_IN_CHAR) - 1)
    THEN {"overflow"} ELSE {}

\* returns [ok, faults] and, when not ok, the DecodeLengthError's two fields
is_valid_client_routing_label(total_num_bits, client_routing_label) ==
    IF U8(Len(client_routing_label)) # ExpectedNumChars(total_num_bits)
    THEN [ok |-> FALSE,
          num_chars |-> Len(client_routing_label),
          expected_num_chars |-> ExpectedNumChars(total_num_bits),
          faults |-> ExpectedNumCharsFaults(total_num_bits)]
    ELSE [ok |-> TRUE, faults |-> ExpectedNumCharsFaults(total_num_bits)]

(***************************************************************************)
(* encode_decode.rs: Base32::decode                                        *)
(***************************************************************************)
\* variant: a byte outside the alphabet reads as 31
LabelValue_or_31(a) ==
    IF \E i \in 1..32 : BASE32_ALPHABET[i] = a
    THEN (CHOOSE i \in 1..32 : BASE32_ALPHABET[i] = a) - 1
    ELSE 31

\* BASE32_ALPHABET.iter().position(|b| a == b).unwrap_or(0) as u8
LabelValue(a) ==
    IF \E i \in 1..32 : BASE32_ALPHABET[i] = a
    THEN (CHOOSE i \in 1..32 : BASE32_ALPHABET[i] = a) - 1
    ELSE 0

LabelValues(encoded_label) ==
    [i \in 1..Len(encoded_label) |-> LabelValue(encoded_label[i])]

\* label_values[label_index]; past the end the index panics (0 stands in)
LabelAt(st) ==
    IF st.label_index < Len(st.label_values)
    THEN st.label_values[st.label_index + 1]
    ELSE 0

LabelAtFaults(st) ==
    IF st.label_index < Len(st.label_values) THEN {} ELSE {"index"}

\* variant: num_bits_in_char is not set back to 5 (no line 191)
DecodeIter_no_reset(st) ==
    LET a == add_bits(st.data, st.num_bits_in_char, LabelAt(st))
    IN  [st EXCEPT !.data = a.data,
                   !.label_index = st.label_index + 1,
                   !.faults = st.faults \cup a.faults \cup LabelAtFaults(st)]

\* lines 189-191: one iteration of the while loop; the state: data,
\* label_values, num_bits_in_char, label_index, faults
DecodeIter(st) ==
    LET a == add_bits(st.data, st.num_bits_in_char, LabelAt(st))
    IN  [st EXCEPT !.data = a.data,
                   !.label_index = st.label_index + 1,
                   !.num_bits_in_char = BASE32_NUM_BITS_IN_CHAR,
                   !.faults = st.faults \cup a.faults \cup LabelAtFaults(st)]

\* lines 188-192
RECURSIVE DecodeWhile(_)
DecodeWhile(st) ==
    IF has_bits_for_char(st.data, st.num_bits_in_char)
    THEN DecodeWhile(DecodeIter(st))
    ELSE st

\* variant: the symbol is added without the shift that drops its low bits
DecodePartial_no_shift(st) ==
    IF st.data.num_bits > 0
    THEN LET n == U8(st.num_bits_in_char - st.data.num_bits)
             a == add_bits(st.data, st.data.num_bits, LabelAt(st))
             kept == AsU8(OfU8(LabelAt(st)) \cap get_mask(n))
         IN  [st EXCEPT
                !.data = a.data,
                !.num_bits_in_char = n,
                !.label_values =
                    IF st.label_index < Len(st.label_values)
                    THEN [st.label_values EXCEPT ![st.label_index + 1] = kept]
                    ELSE st.label_values,
                !.faults = st.faults \cup a.faults \cup LabelAtFaults(st)]
    ELSE st

\* variant: the bits read stay in label_values (no line 197)
DecodePartial_no_clear(st) ==
    IF st.data.num_bits > 0
    THEN LET n == U8(st.num_bits_in_char - st.data.num_bits)
             a == add_bits(st.data, st.data.num_bits, LabelAt(st) \div Pow2(n % 8))
         IN  [st EXCEPT
                !.data = a.data,
                !.num_bits_in_char = n,
                !.faults = st.faults \cup a.faults \cup LabelAtFaults(st)]
    ELSE st

\* lines 194-198
DecodePartial(st) ==
    IF st.data.num_bits > 0
    THEN LET n == U8(st.num_bits_in_char - st.data.num_bits)
             a == add_bits(st.data, st.data.num_bits, LabelAt(st) \div Pow2(n % 8))
             kept == AsU8(OfU8(LabelAt(st)) \cap get_mask(n))
         IN  [st EXCEPT
                !.data = a.data,
                !.num_bits_in_char = n,
                !.label_values =
                    IF st.label_index < Len(st.label_values)
                    THEN [st.label_values EXCEPT ![st.label_index + 1] = kept]
                    ELSE st.label_values,
                !.faults = st.faults \cup a.faults \cup LabelAtFaults(st)
                   \cup get_mask_faults(n)
                   \cup (IF Wraps(st.num_bits_in_char - st.data.num_bits) \/ n >= 8
                         THEN {"overflow"} ELSE {})]
    ELSE st

\* variant: num_bits is left as add_bits left it (no line 200)
RECURSIVE DecodeFor_no_restore(_, _, _)
DecodeFor_no_restore(fields, i, st) ==
    IF i > Len(fields)
    THEN [data |-> fields, st |-> st]
    ELSE LET s == DecodePartial(DecodeWhile(
                     [st EXCEPT !.data = EncodableData({}, fields[i].num_bits)]))
         IN  DecodeFor_no_restore([fields EXCEPT ![i] = s.data], i + 1, s)

\* variant: the bits are added to the value the field holds (no line 186)
RECURSIVE DecodeFor_keep_value(_, _, _)
DecodeFor_keep_value(fields, i, st) ==
    IF i > Len(fields)
    THEN [data |-> fields, st |-> st]
    ELSE LET original_num_bits == fields[i].num_bits
             s == DecodePartial(DecodeWhile([st EXCEPT !.data = fields[i]]))
         IN  DecodeFor_keep_value(
                [fields EXCEPT ![i] = EncodableData(s.data.value, original_num_bits)],
                i + 1, s)

\* the body of `for data in encodable_data.iter_mut()` for field i
RECURSIVE DecodeFor(_, _, _)
DecodeFor(fields, i, st) ==
    IF i > Len(fields)
    THEN [data |-> fields, st |-> st]
    ELSE LET original_num_bits == fields[i].num_bits
             s == DecodePartial(DecodeWhile(
                     [st EXCEPT !.data = EncodableData({}, fields[i].num_bits)]))
         IN  DecodeFor(
                [fields EXCEPT ![i] = EncodableData(s.data.value, original_num_bits)],
                i + 1, s)

\* variant: every value is zeroed before the length is looked at
Base32_decode_zero_first(fields, encoded_label, total_num_bits) ==
    LET valid == is_valid_client_routing_label(total_num_bits, encoded_label)
        zeroed == [i \in 1..Len(fields) |-> EncodableData({}, fields[i].num_bits)]
    IN
    IF ~valid.ok
    THEN [ok |-> FALSE, data |-> zeroed,
          num_chars |-> valid.num_chars,
          expected_num_chars |-> valid.expected_num_chars,
          faults |-> valid.faults]
    ELSE LET r == DecodeFor(fields, 1,
                     [data |-> EncodableData({}, 0),
                      label_values |-> LabelValues(encoded_label),
                      num_bits_in_char |-> BASE32_NUM_BITS_IN_CHAR,
                      label_index |-> 0,
                      faults |-> valid.faults])
         IN  [ok |-> TRUE, data |-> r.data, faults |-> r.st.faults]

\* returns [ok, data: the list afterwards, faults] and, when not ok, the error
Base32_decode(fields, encoded_label, total_num_bits) ==
    LET valid == is_valid_client_routing_label(total_num_bits, encoded_label) IN
    IF ~valid.ok
    THEN [ok |-> FALSE, data |-> fields,
          num_chars |-> valid.num_chars,
          expected_num_chars |-> valid.expected_num_chars,
          faults |-> valid.faults]
    ELSE LET r == DecodeFor(fields, 1,
                     [data |-> EncodableData({}, 0),
                      label_values |-> LabelValues(encoded_label),
                      num_bits_in_char |-> BASE32_NUM_BITS_IN_CHAR,
                      label_index |-> 0,
                      faults |-> valid.faults])
         IN  [ok |-> TRUE, data |-> r.data, faults |-> r.st.faults]

\* the sum of the widths, unbounded
RECURSIVE SumBits(_, _)
SumBits(fields, i) ==
    IF i > Len(fields) THEN 0 ELSE fields[i].num_bits + SumBits(fields, i + 1)

(***************************************************************************)
(* Text.  A &str / &[u8] is the sequence of its bytes.  String literals of *)
(* the source are written as tuples of one-character strings and turned    *)
(* into bytes by Str; integer literals too large for a 32-bit integer are  *)
(* written as their decimal digits and turned into words by FromDecimal.   *)
(***************************************************************************)
PrintableAscii ==
    <<" ", "!", "(quote)", "#", "$", "%", "&", "'", "(", ")", "*", "+", ",", "-",
      ".", "/",
      "0", "1", "2", "3", "4", "5", "6", "7", "8", "9", ":", ";", "<", "=", ">", "?",
      "@", "A", "B", "C", "D", "E", "F", "G", "H", "I", "J", "K", "L", "M", "N", "O",
      "P", "Q", "R", "S", "T", "U", "V", "W", "X", "Y", "Z", "[", "(backslash)", "]",
      "^", "_",
      "(backtick)", "a", "b", "c", "d", "e", "f", "g", "h", "i", "j", "k", "l", "m", "n", "o",
      "p", "q", "r", "s", "t", "u", "v", "w", "x", "y", "z", "{", "|", "}", "~">>

Ord(c) == 31 + (CHOOSE i \in 1..Len(PrintableAscii) : PrintableAscii[i] = c)

Str(cs) == [i \in 1..Len(cs) |-> Ord(cs[i])]

\* bytes (big-endian) times 10 plus carry, from byte k down to byte 1; a
\* carry out of byte 1 is dropped (rustc rejects a literal out of range)
RECURSIVE MulAdd10(_, _, _)
MulAdd10(bytes, k, carry) ==
    IF k = 0
    THEN bytes
    ELSE LET t == bytes[k] * 10 + carry IN
         IF t < 256
         THEN MulAdd10([bytes EXCEPT ![k] = t], k - 1, 0)
         ELSE MulAdd10([bytes EXCEPT ![k] = t % 256], k - 1, t \div 256)

\* the big-endian bytes of the u64 written in decimal as the digits ds
RECURSIVE DecimalBytes(_, _, _)
DecimalBytes(ds, i, bytes) ==
    IF i > Len(ds) \/ bytes[8] \notin 0..255
    THEN bytes
    ELSE DecimalBytes(ds, i + 1, MulAdd10(bytes, 8, ds[i]))

\* uN::from_be_bytes(bytes) as a word
FromBeBytes(bytes) ==
    UNION {Shl(OfU8(bytes[k]), 8 * (Len(bytes) - k), 128) : k \in 1..Len(bytes)}

\* the u64 written in decimal as the digits ds
FromDecimal(ds) == FromBeBytes(DecimalBytes(ds, 1, <<0, 0, 0, 0, 0, 0, 0, 0>>))

\* u64::to_be_bytes
ToBeBytes(w) == [k \in 1..8 |-> AsU8(Shr(w, 8 * (8 - k), 64))]

\* `x as u16`
AsU16(w) == AsU8(w) + 256 * AsU8(Shr(w, 8, 64))

(***************************************************************************)
(* hash.rs                                                                 *)
(*                                                                         *)
(* XxHash64 is the twox_hash crate's; of it the model keeps the values the *)
(* repository's documentation and tests state.                             *)
(***************************************************************************)
XxHash64(cgid) ==
    CASE cgid = "f3663718-7699-4e6e-b482-daa2f690cf64" ->
            FromDecimal(<<8, 5, 1, 7, 7, 7, 5, 2, 5, 5, 7, 9, 4, 4, 0, 2, 5, 9, 6>>)
      [] cgid = "SM89P" ->
            FromDecimal(<<9, 4, 0, 2, 0, 3, 3, 7, 3, 3, 2, 0, 8, 2, 5, 0, 9, 4, 2>>)
      [] cgid = "DP0124QHYT" ->
            FromDecimal(<<1, 6, 7, 4, 5, 0, 4, 5, 1, 4, 2, 1, 6, 4, 8, 9, 4, 8, 1, 6>>)

hash_cgid(cgid) == IF cgid = "" THEN {} ELSE XxHash64(cgid)

(***************************************************************************)
(* ip.rs                                                                   *)
(*                                                                         *)
(* A client_ip is what `client_ip.parse::<IpAddr>()` makes of the text:    *)
(* [kind |-> "v4", octets |-> 4 bytes], [kind |-> "v6", octets |-> 16      *)
(* bytes], or [kind |-> "invalid"] when the parse fails.                   *)
(***************************************************************************)
SubnetMask_Ipv4 == 24
SubnetMask_Ipv6 == 48

ClientSubnetEncodingData(subnet, mask, v6) ==
    [client_subnet |-> subnet, subnet_mask |-> mask, is_ipv6 |-> v6]

\* variant: the IPv4 address is not masked to its /24
parse_client_ip_unmasked(client_ip) ==
    IF client_ip.kind = "v4"
    THEN ClientSubnetEncodingData(
             Shl(FromBeBytes(client_ip.octets), 32, 64),
             OfNat(SubnetMask_Ipv4), {})
    ELSE IF client_ip.kind = "v6"
    THEN ClientSubnetEncodingData(
             (Shr(FromBeBytes(client_ip.octets), 64, 128) \cap (16..63)) \cap U64Bits,
             OfNat(SubnetMask_Ipv6), {0})
    ELSE ClientSubnetEncodingData({}, {}, {})

parse_client_ip(client_ip) ==
    IF client_ip.kind = "v4"
    THEN ClientSubnetEncodingData(
             \* (u32::from_be_bytes(octets) as u64 & 0xffffff00) << 32
             Shl(FromBeBytes(client_ip.octets) \cap (8..31), 32, 64),
             OfNat(SubnetMask_Ipv4), {})
    ELSE IF client_ip.kind = "v6"
    THEN ClientSubnetEncodingData(
             \* ((u128::from_be_bytes(octets) >> 64) & 0xffffffffffff0000) as u64
             (Shr(FromBeBytes(client_ip.octets), 64, 128) \cap (16..63)) \cap U64Bits,
             OfNat(SubnetMask_Ipv6), {0})
    ELSE ClientSubnetEncodingData({}, {}, {})

(***************************************************************************)
(* client_routing_label.rs: ClientRoutingLabel                             *)
(***************************************************************************)
CLIENT_ROUTING_LABEL_VERSION == 1

\* Default::default().encodable_data
ClientRoutingLabel_default ==
    <<EncodableData(OfNat(CLIENT_ROUTING_LABEL_VERSION), 10),
      EncodableData({}, 1),
      EncodableData({}, 64),
      EncodableData({}, 6),
      EncodableData({}, 64)>>

\* variant: the subnet and the cgid in each other's field
set_data_swapped(fields, client_subnet_encoding_data, cgid) ==
    [fields EXCEPT ![2].value = client_subnet_encoding_data.is_ipv6,
                   ![3].value = cgid,
                   ![4].value = client_subnet_encoding_data.subnet_mask,
                   ![5].value = client_subnet_encoding_data.client_subnet]

\* the fields after set_data
set_data(fields, client_subnet_encoding_data, cgid) ==
    [fields EXCEPT ![2].value = client_subnet_encoding_data.is_ipv6,
                   ![3].value = client_subnet_encoding_data.client_subnet,
                   ![4].value = client_subnet_encoding_data.subnet_mask,
                   ![5].value = cgid]

ClientRoutingLabel_encode(fields) == Base32_encode(fields)

\* iter().fold(0, |a, b| a + b.num_bits) in u8
RECURSIVE FoldNumBits(_, _, _)
FoldNumBits(fields, i, a) ==
    IF i > Len(fields) THEN a ELSE FoldNumBits(fields, i + 1, U8(a + fields[i].num_bits))

get_total_num_bits(fields) == FoldNumBits(fields, 1, 0)

get_total_num_bits_faults(fields) ==
    IF SumBits(fields, 1) > 255 THEN {"overflow"} ELSE {}

get_decoded_client_routing_label(fields) ==
    [client_sdk_version |-> AsU16(fields[1].value),
     is_ipv6 |-> fields[2].value # {},
     client_subnet |-> ToBeBytes(fields[3].value),
     subnet_mask |-> AsU8(fields[4].value),
     cgid |-> fields[5].value]

\* returns [ok, data: the fields afterwards, faults] and the decoded label
\* (ok) or the DecodeLengthError's two fields (not ok)
ClientRoutingLabel_decode(fields, client_routing_label) ==
    LET total_num_bits == get_total_num_bits(fields)
        r == Base32_decode(fields, client_routing_label, total_num_bits)
        faults == r.faults \cup get_total_num_bits_faults(fields)
    IN  IF r.ok
        THEN [ok |-> TRUE, data |-> r.data, faults |-> faults,
              decoded |-> get_decoded_client_routing_label(r.data)]
        ELSE [ok |-> FALSE, data |-> r.data, faults |-> faults,
              num_chars |-> r.num_chars,
              expected_num_chars |-> r.expected_num_chars]

(***************************************************************************)
(* lib.rs                                                                  *)
(***************************************************************************)
\* variant: no '.' between the token and the fqdn
encode_request_data_no_dot(client_ip, content_group_id, fqdn) ==
    LET fields == set_data(ClientRoutingLabel_default,
                           parse_client_ip(client_ip), hash_cgid(content_group_id))
    IN  ClientRoutingLabel_encode(fields).token \o fqdn

\* format!("{}.{}", client_routing_label, fqdn) on a fresh label
encode_request_data(client_ip, content_group_id, fqdn) ==
    LET fields == set_data(ClientRoutingLabel_default,
                           parse_client_ip(client_ip), hash_cgid(content_group_id))
    IN  ClientRoutingLabel_encode(fields).token \o Str(<<".">>) \o fqdn

\* domain.split(".").next().unwrap_or_default(): the bytes before the first '.'
FirstLabel(domain) ==
    LET dot == Ord(".")
        dots == {i \in 1..Len(domain) : domain[i] = dot}
        stop == IF dots = {} THEN Len(domain) + 1
                ELSE CHOOSE i \in dots : \A j \in dots : i <= j
    IN  SubSeq(domain, 1, stop - 1)

\* variant: the bytes as they are
AsciiLowercase_identity(bytes) == bytes

\* make_ascii_lowercase
AsciiLowercase(bytes) ==
    LET upper == Ord("A")..Ord("Z") IN
    [i \in 1..Len(bytes) |-> IF bytes[i] \in upper THEN bytes[i] + 32 ELSE bytes[i]]

decode_request_data(domain) ==
    ClientRoutingLabel_decode(ClientRoutingLabel_default,
                              AsciiLowercase(FirstLabel(domain)))

(***************************************************************************)
(* Scenario inputs: the field lists a caller may build.                    *)
(***************************************************************************)
AllOnes == U64Bits
EvenBits == {i \in U64Bits : i % 2 = 0}
OddBits == {i \in U64Bits : i % 2 = 1}

\* values tried for a field of width w: 0, the in-width truncations of the
\* three patterns, and u64::MAX (wider than every width below 64)
SampleValues(w) ==
    {{}, AllOnes \cap get_mask(w), EvenBits \cap get_mask(w),
     OddBits \cap get_mask(w), AllOnes}

SampleFields ==
    UNION {{EncodableData(v, w) : v \in SampleValues(w)} : w \in 0..MaxTotalBits}

\* fields as wide as a u64
WideFields == {EncodableData(v, 64) : v \in {EvenBits, AllOnes}}

(***************************************************************************)
(* The codec scenario: a caller builds a field list, encodes it, and       *)
(* decodes the token into a fresh list of the same widths.                 *)
(***************************************************************************)
Init ==
    /\ pc = "building"
    /\ given = <<>>
    /\ encodable_data = <<>>
    /\ label = <<>>
    /\ result = [op |-> "none"]

\* the sum of the widths below 64
RECURSIVE NarrowBits(_, _)
NarrowBits(fields, i) ==
    IF i > Len(fields) THEN 0
    ELSE (IF fields[i].num_bits < 64 THEN fields[i].num_bits ELSE 0)
         + NarrowBits(fields, i + 1)

\* the caller adds one more EncodableData { value, num_bits } to its list; a
\* list with a u64-wide field is closed by the field after that one
Build(f) ==
    /\ pc \in {"building", "closing"}
    /\ Len(given) < MaxFields
    /\ NarrowBits(given, 1) + f.num_bits <= MaxTotalBits
    /\ given' = Append(given, f)
    /\ encodable_data' = Append(encodable_data, f)
    /\ pc' = IF pc = "closing" THEN "built" ELSE pc
    /\ UNCHANGED <<label, result>>

\* the caller adds a field as wide as a u64, as the first or second field
BuildWide(f) ==
    /\ pc = "building"
    /\ Len(given) < MaxFields
    /\ Len(given) <= 1
    /\ given' = Append(given, f)
    /\ encodable_data' = Append(encodable_data, f)
    /\ pc' = "closing"
    /\ UNCHANGED <<label, result>>

Encode ==
    /\ pc \in {"building", "closing", "built"}
    /\ LET r == Base32_encode(encodable_data) IN
         /\ encodable_data' = r.data
         /\ label' = r.token
         /\ result' = [op |-> "encode", emitted |-> r.emitted, faults |-> r.faults]
    /\ pc' = "encoded"
    /\ UNCHANGED given

\* the caller's fresh list for decoding: the same widths, values 0
FreshFields(fields) ==
    [i \in 1..Len(fields) |-> EncodableData({}, fields[i].num_bits)]

Decode ==
    /\ pc = "encoded"
    /\ LET r == Base32_decode(FreshFields(given), label, U8(SumBits(given, 1))) IN
         /\ encodable_data' = r.data
         /\ result' = [op |-> "decode", ok |-> r.ok, faults |-> r.faults]
    /\ pc' = "decoded"
    /\ UNCHANGED <<given, label>>

Next ==
    \/ \E f \in SampleFields : Build(f)
    \/ \E f \in WideFields : BuildWide(f)
    \/ Encode
    \/ Decode

Spec == Init /\ [][Next]_vars

(***************************************************************************)
(* The length-validation scenario: a caller picks total_num_bits (given)   *)
(* and a label of some length (only the length is read), and asks          *)
(* Base32::is_valid_client_routing_label about them.                       *)
(***************************************************************************)
MaxLabelLen == 52    \* label lengths tried: 0..MaxLabelLen, and those plus 256

InitLen ==
    /\ pc = "args"
    /\ given = 0
    /\ label = <<>>
    /\ encodable_data = <<>>
    /\ result = [op |-> "none"]

\* total_num_bits: u8, one more
MoreBits ==
    /\ pc = "args"
    /\ given < 255
    /\ given' = given + 1
    /\ UNCHANGED <<pc, label, encodable_data, result>>

\* the label n bytes longer
LongerLabel(n) ==
    /\ pc = "args"
    /\ IF n = 1 THEN Len(label) % 256 < MaxLabelLen ELSE Len(label) < 256
    /\ label' = label \o [i \in 1..n |-> BASE32_ALPHABET[1]]
    /\ UNCHANGED <<pc, given, encodable_data, result>>

Validate ==
    /\ pc = "args"
    /\ LET r == is_valid_client_routing_label(given, label) IN
         result' = [op |-> "is_valid", ok |-> r.ok, faults |-> r.faults,
                    num_chars |-> IF r.ok THEN 0 ELSE r.num_chars,
                    expected_num_chars |-> IF r.ok THEN 0 ELSE r.expected_num_chars]
    /\ pc' = "validated"
    /\ UNCHANGED <<given, label, encodable_data>>

NextLen ==
    \/ MoreBits
    \/ \E n \in {1, 256} : LongerLabel(n)
    \/ Validate

SpecLen == InitLen /\ [][NextLen]_vars

(***************************************************************************)
(* The mask scenario: a caller picks num_bits (given) and calls get_mask.  *)
(***************************************************************************)
InitMask ==
    /\ pc = "args"
    /\ given = 0
    /\ label = <<>>
    /\ encodable_data = <<>>
    /\ result = [op |-> "none"]

\* num_bits: u8, one more
WiderMask ==
    /\ pc = "args"
    /\ given < 255
    /\ given' = given + 1
    /\ UNCHANGED <<pc, label, encodable_data, result>>

GetMask ==
    /\ pc = "args"
    /\ result' = [op |-> "get_mask", value |-> get_mask(given),
                  faults |-> get_mask_faults(given)]
    /\ pc' = "masked"
    /\ UNCHANGED <<given, label, encodable_data>>

NextMask ==
    \/ WiderMask
    \/ GetMask

SpecMask == InitMask /\ [][NextMask]_vars

(***************************************************************************)
(* The decode scenario: a caller builds a field list, writes a label byte  *)
(* by byte, and hands both to Base32::decode with total_num_bits the sum   *)
(* of the widths.  The fields may hold values already, wider than the      *)
(* field included, and the list may be the default label's, with a label   *)
(* of 29 bytes.  given is the list as the caller made it, encodable_data   *)
(* the list decode works on; a decoded list may be decoded into again.     *)
(***************************************************************************)
MaxDecodeBits == 9   \* largest total width of a field list to decode into

\* bytes a label is written from: 'a' (0), 'q' (16), 'v' (21), '7' (31), and
\* bytes outside the alphabet: '1', 'A', 0xff
SampleBytes == {97, 113, 118, 55, 49, 65, 255}

\* the value the fields hold before the call: all 64 bits
PriorValues == {AllOnes}

InitDecode ==
    /\ pc = "building"
    /\ given = <<>>
    /\ encodable_data = <<>>
    /\ label = <<>>
    /\ result = [op |-> "none"]

\* one more field of width w, its value 0
BuildField(w) ==
    /\ pc = "building"
    /\ Len(given) < MaxFields
    /\ SumBits(given, 1) + w <= MaxDecodeBits
    /\ given' = Append(given, EncodableData({}, w))
    /\ encodable_data' = Append(encodable_data, EncodableData({}, w))
    /\ UNCHANGED <<pc, label, result>>

\* every field already holds the value v
FillValues(v) ==
    /\ pc = "building"
    /\ given # <<>>
    /\ given' = [i \in 1..Len(given) |-> EncodableData(v, given[i].num_bits)]
    /\ encodable_data' = given'
    /\ pc' = "writing"
    /\ UNCHANGED <<label, result>>

\* ClientRoutingLabel::default()'s list and a label of 29 bytes b
BuildDefault(b) ==
    /\ pc = "building"
    /\ given = <<>>
    /\ given' = ClientRoutingLabel_default
    /\ encodable_data' = ClientRoutingLabel_default
    /\ label' = [i \in 1..29 |-> b]
    /\ pc' = "token"
    /\ UNCHANGED result

\* byte i of the 29-byte label becomes b
Overwrite(i, b) ==
    /\ pc = "token"
    /\ label[i] # b
    /\ label' = [label EXCEPT ![i] = b]
    /\ pc' = "written"
    /\ UNCHANGED <<given, encodable_data, result>>

\* one more byte of the label
WriteByte(b) ==
    /\ pc \in {"building", "writing"}
    /\ Len(label) < (SumBits(given, 1) + 4) \div 5
    /\ label' = Append(label, b)
    /\ pc' = "writing"
    /\ UNCHANGED <<given, encodable_data, result>>

DecodeLabel ==
    /\ pc \in {"building", "writing", "token", "written", "decoded"}
    /\ LET r == Base32_decode(encodable_data, label, U8(SumBits(given, 1))) IN
         /\ encodable_data' = r.data
         /\ result' = [op |-> "decode", ok |-> r.ok, faults |-> r.faults]
    /\ pc' = "decoded"
    /\ UNCHANGED <<given, label>>

NextDecode ==
    \/ \E w \in 0..MaxDecodeBits : BuildField(w)
    \/ \E v \in PriorValues : FillValues(v)
    \/ \E b \in SampleBytes : BuildDefault(b)
    \/ \E i \in 1..29, b \in SampleBytes : Overwrite(i, b)
    \/ \E b \in SampleBytes : WriteByte(b)
    \/ DecodeLabel

SpecDecode == InitDecode /\ [][NextDecode]_vars

(***************************************************************************)
(* Inputs of the library's callers.                                        *)
(***************************************************************************)
SampleClientIps ==
    {[kind |-> "v4", octets |-> <<1, 2, 3, 4>>],
     [kind |-> "v4", octets |-> <<85, 83, 215, 126>>],
     [kind |-> "v4", octets |-> <<255, 255, 255, 255>>],
     [kind |-> "v6", octets |-> <<1, 2, 3, 4, 5, 6, 7, 8, 9, 10, 11, 12, 13, 14, 15, 16>>],
     [kind |-> "v6", octets |-> [i \in 1..16 |-> 255]],
     [kind |-> "invalid"]}

SampleCgids == {"", "f3663718-7699-4e6e-b482-daa2f690cf64", "SM89P", "DP0124QHYT"}

SampleFqdns ==
    {Str(<<>>),
     Str(<<"e", "x", "a", "m", "p", "l", "e", ".", "c", "o", "m">>),
     Str(<<"v", "o", "d", "1", ".", "e", "x", "a", "m", "p", "l", "e", ".", "c", "o", "m">>),
     Str(<<"e", ".", "c", "o", "m", "/", "m", "?", "q", "=", "w">>)}

(***************************************************************************)
(* The address scenario: a caller writes a client_ip, and has it parsed or *)
(* encoded into a domain.                                                  *)
(***************************************************************************)
\* address bytes tried
SampleOctets == {0, 1, 200, 255}

\* IPv4 addresses a.b.c.d
SampleIpv4 ==
    {[kind |-> "v4", octets |-> <<a, b, c, d>>] :
        a \in SampleOctets, b \in SampleOctets, c \in SampleOctets, d \in SampleOctets}

\* IPv6 addresses: bytes 1..5 a, byte 6 b, bytes 7..8 c, bytes 9..16 d
SampleIpv6 ==
    {[kind |-> "v6",
      octets |-> [i \in 1..16 |-> IF i <= 5 THEN a ELSE IF i = 6 THEN b
                                  ELSE IF i <= 8 THEN c ELSE d]] :
        a \in {0, 18, 255}, b \in {0, 18, 255}, c \in {0, 18, 255}, d \in {0, 18, 255}}

InitIp ==
    /\ pc = "args"
    /\ given = [kind |-> "invalid"]
    /\ label = <<>>
    /\ encodable_data = <<>>
    /\ result = [op |-> "none"]

\* the client_ip is text that parses as ip
WriteIp(ip) ==
    /\ pc = "args"
    /\ given = [kind |-> "invalid"]
    /\ given' = ip
    /\ UNCHANGED <<pc, label, encodable_data, result>>

ParseIp ==
    /\ pc = "args"
    /\ result' = [op |-> "parse_client_ip", data |-> parse_client_ip(given)]
    /\ pc' = "parsed"
    /\ UNCHANGED <<given, label, encodable_data>>

RequestIp(content_group_id, fqdn) ==
    /\ pc = "args"
    /\ label' = encode_request_data(given, content_group_id, fqdn)
    /\ result' = [op |-> "encode_request_data",
                  content_group_id |-> content_group_id, fqdn |-> fqdn]
    /\ pc' = "requested"
    /\ UNCHANGED <<given, encodable_data>>

NextIp ==
    \/ \E ip \in SampleIpv4 \cup SampleIpv6 : WriteIp(ip)
    \/ ParseIp
    \/ \E c \in SampleCgids : \E f \in SampleFqdns : RequestIp(c, f)

SpecIp == InitIp /\ [][NextIp]_vars

(***************************************************************************)
(* The label scenario: one ClientRoutingLabel, built by Default, on which  *)
(* set_data, encode and decode are called in any order.                    *)
(***************************************************************************)
InitLabel ==
    /\ pc = "default"
    /\ encodable_data = ClientRoutingLabel_default
    /\ given = [op |-> "none"]
    /\ label = <<>>
    /\ result = [op |-> "none"]

SetData(client_subnet_encoding_data, cgid) ==
    /\ encodable_data' = set_data(encodable_data, client_subnet_encoding_data, cgid)
    /\ given' = [op |-> "set_data", data |-> client_subnet_encoding_data, cgid |-> cgid]
    /\ pc' = "set"
    /\ UNCHANGED <<label, result>>

\* result.fields: the fields as encode found them
LabelEncode ==
    /\ LET r == ClientRoutingLabel_encode(encodable_data) IN
         /\ encodable_data' = r.data
         /\ label' = r.token
         /\ result' = [op |-> "encode", fields |-> encodable_data, faults |-> r.faults]
    /\ pc' = "encoded"
    /\ UNCHANGED given

\* decode of the label last produced
LabelDecode ==
    /\ pc = "encoded"
    /\ LET r == ClientRoutingLabel_decode(encodable_data, label) IN
         /\ encodable_data' = r.data
         /\ result' = IF r.ok
                      THEN [op |-> "decode", ok |-> TRUE, faults |-> r.faults,
                            decoded |-> r.decoded]
                      ELSE [op |-> "decode", ok |-> FALSE, faults |-> r.faults,
                            num_chars |-> r.num_chars,
                            expected_num_chars |-> r.expected_num_chars]
    /\ pc' = "decoded"
    /\ UNCHANGED <<given, label>>

NextLabel ==
    \/ \E ip \in SampleClientIps : \E c \in SampleCgids :
          SetData(parse_client_ip(ip), hash_cgid(c))
    \/ LabelEncode
    \/ LabelDecode

SpecLabel == InitLabel /\ [][NextLabel]_vars

(***************************************************************************)
(* The public-API scenario: a caller encodes request data into a domain,   *)
(* or writes a domain of its own by cutting and padding one, and decodes   *)
(* the domain.  label holds the domain's bytes.                            *)
(***************************************************************************)
MaxExtra == 2        \* first labels are padded to 29 + MaxExtra bytes (+ 256)

InitApi ==
    /\ pc = "idle"
    /\ given = [op |-> "none"]
    /\ label = <<>>
    /\ encodable_data = <<>>
    /\ result = [op |-> "none"]

EncodeRequest(client_ip, content_group_id, fqdn) ==
    /\ pc = "idle"
    /\ label' = encode_request_data(client_ip, content_group_id, fqdn)
    /\ given' = [op |-> "encode_request_data", client_ip |-> client_ip,
                 content_group_id |-> content_group_id, fqdn |-> fqdn]
    /\ pc' = "encoded"
    /\ UNCHANGED <<encodable_data, result>>

\* the caller's domain is the encoded one without its first byte
CutFirstByte ==
    /\ pc \in {"encoded", "cut"}
    /\ label # <<>>
    /\ label' = Tail(label)
    /\ pc' = "cut"
    /\ UNCHANGED <<given, encodable_data, result>>

\* the caller's domain is n more bytes 'a' followed by the domain
PadFirstLabel(n) ==
    /\ pc \in {"encoded", "cut", "padded"}
    /\ IF n = 1
       THEN Len(FirstLabel(label)) % 256 \in 29..(29 + MaxExtra - 1)
       ELSE Len(FirstLabel(label)) < 256
    /\ label' = [i \in 1..n |-> BASE32_ALPHABET[1]] \o label
    /\ pc' = "padded"
    /\ UNCHANGED <<given, encodable_data, result>>

\* the caller's domain has the label "vod1" before the encoded one
PrependLabel ==
    /\ pc = "encoded"
    /\ label' = Str(<<"v", "o", "d", "1", ".">>) \o label
    /\ pc' = "relabelled"
    /\ UNCHANGED <<given, encodable_data, result>>

\* the caller's domain is the token alone
BareToken ==
    /\ pc = "encoded"
    /\ label' = SubSeq(label, 1, 29)
    /\ pc' = "bare"
    /\ UNCHANGED <<given, encodable_data, result>>

\* the caller's domain has its letters upper-cased: all of them (k = 1) or
\* every second byte (k = 2)
UpperCase(k) ==
    /\ pc \in {"encoded", "bare"}
    /\ LET lower == Ord("a")..Ord("z") IN
         label' = [i \in 1..Len(label) |->
                      IF i % k = 0 /\ label[i] \in lower
                      THEN label[i] - 32 ELSE label[i]]
    /\ pc' = "uppercased"
    /\ UNCHANGED <<given, encodable_data, result>>

\* decode_request_data(domain) on the domain in hand (the empty one at first)
DecodeRequest ==
    /\ pc # "decoded"
    /\ LET r == decode_request_data(label) IN
         /\ encodable_data' = r.data
         /\ result' = IF r.ok
                      THEN [op |-> "decode_request_data", ok |-> TRUE,
                            faults |-> r.faults, decoded |-> r.decoded]
                      ELSE [op |-> "decode_request_data", ok |-> FALSE,
                            faults |-> r.faults, num_chars |-> r.num_chars,
                            expected_num_chars |-> r.expected_num_chars]
    /\ pc' = "decoded"
    /\ UNCHANGED <<given, label>>

NextApi ==
    \/ \E ip \in SampleClientIps : \E c \in SampleCgids : \E f \in SampleFqdns :
          EncodeRequest(ip, c, f)
    \/ CutFirstByte
    \/ \E n \in {1, 256} : PadFirstLabel(n)
    \/ PrependLabel
    \/ BareToken
    \/ \E k \in {1, 2} : UpperCase(k)
    \/ DecodeRequest

SpecApi == InitApi /\ [][NextApi]_vars



(***************************************************************************)
(* Helpers of the claims.                                                  *)
(***************************************************************************)
CeilDiv5(n) == (n + 4) \div 5

TotalBits(fields) == SumBits(fields, 1)

\* every value fits its declared width
InWidth(fields) ==
    \A i \in 1..Len(fields) : fields[i].value \subseteq get_mask(fields[i].num_bits)

\* the list with every value replaced by value & mask(width)
Truncated(fields) ==
    [i \in 1..Len(fields) |->
        EncodableData(fields[i].value \cap get_mask(fields[i].num_bits),
                      fields[i].num_bits)]

\* the bit offset at which field i starts in the stream
Offset(fields, i) == TotalBits(SubSeq(fields, 1, i - 1))

\* field i straddles a symbol boundary: it starts inside one symbol and ends
\* inside a later one
Straddles(fields, i) ==
    /\ Offset(fields, i) % 5 # 0
    /\ Offset(fields, i) \div 5 < (Offset(fields, i) + fields[i].num_bits - 1) \div 5

\* field i is narrower than what is missing from the current symbol, and is
\* read while bits of earlier fields are pending
FoldedOntoLeftover(fields, i) ==
    /\ Offset(fields, i) % 5 # 0
    /\ fields[i].num_bits < 5 - (Offset(fields, i) % 5)

InAlphabet(b) == \E i \in 1..32 : BASE32_ALPHABET[i] = b

\* the label with every byte outside the alphabet replaced by 'a'
OutsideAsA(bytes) ==
    [i \in 1..Len(bytes) |-> IF InAlphabet(bytes[i]) THEN bytes[i] ELSE 97]

\* the values set_data writes: those of fields 1..4
SetValues(fields) == [i \in 2..5 |-> fields[i].value]

\* the bytes a are the bytes b, but for letters of b in upper case
SameIgnoringCase(a, b) ==
    /\ Len(a) = Len(b)
    /\ \A i \in 1..Len(a) :
          a[i] = b[i] \/ (b[i] \in 97..122 /\ a[i] = b[i] - 32)

\* the token of the domain encode_request_data returned for the request g
TokenOf(g) ==
    SubSeq(encode_request_data(g.client_ip, g.content_group_id, g.fqdn), 1, 29)

\* the number a word within bits 0..30 stands for, from bit i up
RECURSIVE LowValue(_, _)
LowValue(w, i) == IF i > 30 THEN 0 ELSE Bit(w, i) * Pow2(i) + LowValue(w, i + 1)

\* the eight subnet bytes of an address: its first 3 (IPv4) or 6 (IPv6) bytes
\* and zeros
SubnetBytes(ip) ==
    [k \in 1..8 |->
        IF ip.kind = "v4" /\ k <= 3 THEN ip.octets[k]
        ELSE IF ip.kind = "v6" /\ k <= 6 THEN ip.octets[k]
        ELSE 0]

\* the address with the bytes after its /24 or /48 prefix zeroed
HostZeroed(ip) ==
    IF ip.kind = "v4"
    THEN [ip EXCEPT !.octets = [k \in 1..4 |-> IF k <= 3 THEN ip.octets[k] ELSE 0]]
    ELSE IF ip.kind = "v6"
    THEN [ip EXCEPT !.octets = [k \in 1..16 |-> IF k <= 6 THEN ip.octets[k] ELSE 0]]
    ELSE ip

\* a field's value as num_bits bits, most significant first
FieldBits(f) == [j \in 1..f.num_bits |-> Bit(f.value, f.num_bits - j)]

\* the fields' bits one after the other, from field i on
RECURSIVE BitStream(_, _)
BitStream(fields, i) ==
    IF i > Len(fields) THEN <<>> ELSE FieldBits(fields[i]) \o BitStream(fields, i + 1)

\* the bit stream cut into 5-bit symbols, the last one padded with zeros
ReferenceToken(fields) ==
    LET bits == BitStream(fields, 1)
        bit(n) == IF n <= Len(bits) THEN bits[n] ELSE 0
    IN  [k \in 1..((Len(bits) + 4) \div 5) |->
            BASE32_ALPHABET[1 + 16 * bit(5 * k - 4) + 8 * bit(5 * k - 3)
                              + 4 * bit(5 * k - 2) + 2 * bit(5 * k - 1) + bit(5 * k)]]

\* the label with the pad bits of its last symbol cleared, T being the
\* total width
PadCleared(bytes, T) ==
    IF bytes = <<>>
    THEN bytes
    ELSE LET pad == 5 * CeilDiv5(T) - T
             v == LabelValue(bytes[Len(bytes)])
         IN  [bytes EXCEPT ![Len(bytes)] =
                 BASE32_ALPHABET[1 + (v \div Pow2(pad)) * Pow2(pad)]]

\* the fields of the end-to-end example
C8_Fields ==
    <<EncodableData(OfNat(1), 10),
      EncodableData({}, 1),
      EncodableData(FromBeBytes(<<1, 2, 3, 0, 0, 0, 0, 0>>), 64),
      EncodableData(OfNat(24), 6),
      EncodableData(FromDecimal(<<8, 5, 1, 7, 7, 7, 5, 2, 5, 5, 7, 9, 4, 4, 0, 2, 5, 9, 6>>), 64)>>


C2_TruncationLaw ==
    pc = "encoded" => label = Base32_encode(Truncated(given)).token

(***************************************************************************)
(* C3.  Public-API round trip: decode_request_data of the domain that      *)
(* encode_request_data(client_ip, content_group_id, fqdn) returned is Ok   *)
(* with client_sdk_version = 1, is_ipv6 = (parsed is_ipv6 != 0),           *)
(* client_subnet = the big-endian bytes of the parsed subnet value,        *)
(* subnet_mask = the parsed mask and cgid = hash_cgid(content_group_id).   *)
(***************************************************************************)
C3_ApiRoundTrip ==
    (/\ pc = "decoded"
     /\ given.op = "encode_request_data"
     /\ label = encode_request_data(given.client_ip, given.content_group_id, given.fqdn))
    => LET parsed == parse_client_ip(given.client_ip) IN
       /\ result.ok
       /\ result.faults = {}
       /\ result.decoded.client_sdk_version = 1
       /\ result.decoded.is_ipv6 = (parsed.is_ipv6 # {})
       /\ result.decoded.client_subnet = ToBeBytes(parsed.client_subnet)
       /\ result.decoded.subnet_mask = AsU8(parsed.subnet_mask)
       /\ result.decoded.cgid = hash_cgid(given.content_group_id)

\* the round trip of an IPv6 address and a hashed content group id, with a
\* fqdn after the token
C3_Witness ==
    /\ pc = "decoded"
    /\ given.op = "encode_request_data"
    /\ given.client_ip.kind = "v6"
    /\ given.content_group_id = "SM89P"
    /\ given.fqdn # <<>>
    /\ label = encode_request_data(given.client_ip, given.content_group_id, given.fqdn)
    /\ result.ok
    /\ result.decoded.is_ipv6
    /\ result.decoded.cgid # {}

(***************************************************************************)
(* C4.  Encode length law: the token has exactly ceil(S / 5) symbols, S    *)
(* the sum of the fields' widths at the time of the call; the empty list   *)
(* gives the empty token.                                                  *)
(***************************************************************************)
C4_EncodeLength ==
    pc = "encoded"
    => /\ Len(label) = CeilDiv5(TotalBits(given))
       /\ (given = <<>> => label = <<>>)
       /\ result.faults = {}

\* three fields, none of them a whole number of symbols, 7 bits in all
C4_Witness ==
    /\ pc = "encoded"
    /\ Len(given) = 3
    /\ \A i \in 1..3 : given[i].num_bits \in 1..4
    /\ TotalBits(given) = 7
    /\ Len(label) = 2

(***************************************************************************)
(* C5.  Length validation: is_valid_client_routing_label(T, token)         *)
(* returns Ok if and only if the token's length L equals ceil(T / 5), for  *)
(* every L (256 and more included) and every T in 0..255; otherwise it     *)
(* returns DecodeLengthError with num_chars = L and expected_num_chars =   *)
(* ceil(T / 5).                                                            *)
(***************************************************************************)
C5_LengthValidation ==
    pc = "validated"
    => /\ result.faults = {}
       /\ result.ok <=> (Len(label) = CeilDiv5(given))
       /\ ~result.ok => /\ result.num_chars = Len(label)
                        /\ result.expected_num_chars = CeilDiv5(given)

(***************************************************************************)
(* C6.  decode_request_data returns Err(DecodeLengthError) for every       *)
(* domain whose first label is not exactly 29 bytes long, whatever its     *)
(* length, and the error has num_chars = the length of that first label    *)
(* and expected_num_chars = 29.                                            *)
(***************************************************************************)
C6_WrongLengthRejected ==
    (pc = "decoded" /\ Len(FirstLabel(label)) # 29)
    => /\ ~result.ok
       /\ result.num_chars = Len(FirstLabel(label))
       /\ result.expected_num_chars = 29

(***************************************************************************)
(* C7.  Lenient decode: for a label of valid length, decode returns Ok     *)
(* whatever the bytes are, and leaves exactly the field values it leaves   *)
(* for the label in which every byte outside the alphabet is replaced by   *)
(* 'a'.                                                                    *)
(***************************************************************************)
C7_LenientDecode ==
    (pc = "decoded" /\ Len(label) = CeilDiv5(TotalBits(given)))
    => /\ result.ok
       /\ result.faults = {}
       /\ encodable_data =
            Base32_decode(given, OutsideAsA(label), U8(TotalBits(given))).data

\* a decoded two-symbol label whose first byte is outside the alphabet and
\* whose second is '7', read into fields of which one ends up non-zero
C7_Witness ==
    /\ pc = "decoded"
    /\ Len(label) = 2
    /\ Len(label) = CeilDiv5(TotalBits(given))
    /\ ~InAlphabet(label[1])
    /\ label[2] = 55
    /\ result.ok
    /\ \E i \in 1..Len(encodable_data) : encodable_data[i].value # {}

(***************************************************************************)
(* C8.  End-to-end example, as stated: a label with version 1, flag 0,     *)
(* subnet bytes [1,2,3,0,0,0,0,0], mask 24 and content hash                *)
(* 8517775255794402596 encodes to "abfku6xaaaaaaaamhmnjxo5hdzrje".         *)
(***************************************************************************)
C8_Example ==
    (pc = "encoded" /\ result.fields = C8_Fields)
    => label = Str(<<"a", "b", "f", "k", "u", "6", "x", "a", "a", "a", "a", "a",
                     "a", "a", "a", "m", "h", "m", "n", "j", "x", "o", "5", "h",
                     "d", "z", "r", "j", "e">>)

(***************************************************************************)
(* C8, amended.  Those fields encode to "abacaqdaaaaaaaamhmnjxo5hdzrje"    *)
(* (the token stated is that of the subnet bytes [85,83,215,0,0,0,0,0]).   *)
(***************************************************************************)
C8_ExampleAmended ==
    (pc = "encoded" /\ result.fields = C8_Fields)
    => label = Str(<<"a", "b", "a", "c", "a", "q", "d", "a", "a", "a", "a", "a",
                     "a", "a", "a", "m", "h", "m", "n", "j", "x", "o", "5", "h",
                     "d", "z", "r", "j", "e">>)

\* the example's label has been encoded, into 29 symbols
C8_Witness ==
    /\ pc = "encoded"
    /\ result.fields = C8_Fields
    /\ Len(label) = 29

(***************************************************************************)
(* C9.  Padding law, encode side: when S is not a multiple of 5 the        *)
(* 5*ceil(S/5) - S low-order bits of the last symbol's 5-bit value are     *)
(* zero, and the padding is shorter than a symbol, so no other symbol      *)
(* holds padding bits.                                                     *)
(***************************************************************************)
PadBits(fields) == 5 * CeilDiv5(TotalBits(fields)) - TotalBits(fields)

C9_PaddingZero ==
    (pc = "encoded" /\ TotalBits(given) % 5 # 0)
    => /\ label # <<>>
       /\ 5 * Len(label) - TotalBits(given) \in 1..4
       /\ LabelValue(label[Len(label)]) % Pow2(PadBits(given)) = 0
       /\ result.emitted[Len(label)].acc % Pow2(PadBits(given)) = 0

\* the last field is u64::MAX (wider than its width) and ends inside the last
\* symbol, whose data bits are not all zero
C9_Witness ==
    /\ pc = "encoded"
    /\ Len(given) >= 2
    /\ TotalBits(given) % 5 # 0
    /\ given[Len(given)].value = AllOnes
    /\ given[Len(given)].num_bits > 0
    /\ LabelValue(label[Len(label)]) # 0

(***************************************************************************)
(* C10.  Every character of the token is alphabet[v] for the 5-bit value v *)
(* it carries: at every push the accumulator is in 0..31 and the leftover  *)
(* count in 0..4, for any widths and any values (also values wider than    *)
(* their field).                                                           *)
(***************************************************************************)
C10_AlphabetOnly ==
    pc = "encoded"
    => /\ Len(result.emitted) = Len(label)
       /\ "index" \notin result.faults
       /\ \A i \in 1..Len(label) :
            /\ result.emitted[i].acc \in 0..31
            /\ result.emitted[i].left_over \in 0..4
            /\ label[i] = BASE32_ALPHABET[result.emitted[i].acc + 1]
            /\ label[i] \in (97..122) \cup (50..55)

\* a value wider than its field was folded onto pending bits, and two
\* characters were pushed
C10_Witness ==
    /\ pc = "encoded"
    /\ Len(label) >= 2
    /\ \E i \in 1..Len(given) :
         /\ FoldedOntoLeftover(given, i)
         /\ ~(given[i].value \subseteq get_mask(given[i].num_bits))
    /\ \E i \in 1..Len(label) : result.emitted[i].left_over > 0


(***************************************************************************)
(* C11.  Widths after encode: when encode returns, every field's num_bits  *)
(* is what it was before the call, and get_total_num_bits() of a label     *)
(* built by Default is 145 after any sequence of set_data, encode and      *)
(* decode calls.                                                           *)
(***************************************************************************)
C11_WidthsRestored ==
    /\ get_total_num_bits(encodable_data) = 145
    /\ pc = "encoded"
       => \A i \in 1..Len(encodable_data) :
             encodable_data[i].num_bits = result.fields[i].num_bits

(***************************************************************************)
(* C12.  Reusability of one label: on a label already used for encode and  *)
(* decode calls, set_data(d, h) followed by encode() returns the token     *)
(* that set_data(d, h) and encode() return on a fresh Default label, and   *)
(* the decode of that token on the same label then returns Ok with d and   *)
(* h.                                                                      *)
(***************************************************************************)
C12_Reusable ==
    given.op = "set_data"
    => LET start == set_data(ClientRoutingLabel_default, given.data, given.cgid)
           fresh == ClientRoutingLabel_encode(start)
       IN  /\ (pc = "encoded" /\ SetValues(result.fields) = SetValues(start))
              => label = fresh.token
           /\ (pc = "decoded" /\ label = fresh.token)
              => /\ result.ok
                 /\ result.decoded.is_ipv6 = (given.data.is_ipv6 # {})
                 /\ result.decoded.client_subnet = ToBeBytes(given.data.client_subnet)
                 /\ result.decoded.subnet_mask = AsU8(given.data.subnet_mask)
                 /\ result.decoded.cgid = given.cgid

(***************************************************************************)
(* C13.  Version field: field 0 of a label holds the value 1 given at      *)
(* construction in every state reachable by set_data, encode and decode    *)
(* calls; set_data writes only the values of fields 1..4 and changes no    *)
(* field's width.                                                          *)
(***************************************************************************)
C13_VersionFixed ==
    /\ encodable_data[1].value = OfNat(CLIENT_ROUTING_LABEL_VERSION)
    /\ \A ip \in SampleClientIps : \A c \in SampleCgids :
          LET after == set_data(encodable_data, parse_client_ip(ip), hash_cgid(c))
          IN  /\ after[1] = encodable_data[1]
              /\ \A i \in 1..Len(encodable_data) :
                    after[i].num_bits = encodable_data[i].num_bits

(***************************************************************************)
(* C14.  Error frame: when decode returns DecodeLengthError, every field's *)
(* value and width are what they were before the call, and the error       *)
(* ClientRoutingLabel::decode returns is the one of the length check.      *)
(***************************************************************************)
C14_ErrorFrame ==
    [][(pc' = "decoded" /\ pc # "decoded" /\ ~result'.ok)
       => LET valid == is_valid_client_routing_label(
                           get_total_num_bits(encodable_data), label)
          IN  /\ encodable_data' = encodable_data
              /\ ~valid.ok
              /\ result'.num_chars = valid.num_chars
              /\ result'.expected_num_chars = valid.expected_num_chars]_vars

\* a decode that returned the error on a label one of whose fields held a
\* value other than 0
C14_Witness ==
    /\ pc = "decoded"
    /\ ~result.ok
    /\ result.num_chars = 29
    /\ \E i \in 1..Len(encodable_data) : encodable_data[i].value # {}


(***************************************************************************)
(* C15.  decode_request_data reads only the first DNS label, and reads it  *)
(* case-insensitively: for a token t, the domains t, t + "." + s for any   *)
(* suffix s, and those with letters upper-cased, all give the result of    *)
(* decode_request_data(t).                                                 *)
(***************************************************************************)
C15_FirstLabelOnly ==
    (/\ pc = "decoded"
     /\ given.op = "encode_request_data"
     /\ Len(label) >= 29
     /\ SameIgnoringCase(SubSeq(label, 1, 29), TokenOf(given))
     /\ Len(label) > 29 => label[30] = Ord("."))
    => /\ result.ok
       /\ result.decoded = decode_request_data(TokenOf(given)).decoded

\* the decode of a domain whose token has an upper-case letter and whose
\* suffix has a dot of its own
C15_Witness ==
    /\ pc = "decoded"
    /\ given.op = "encode_request_data"
    /\ Len(label) > 31
    /\ SameIgnoringCase(SubSeq(label, 1, 29), TokenOf(given))
    /\ \E i \in 1..29 : label[i] \in Ord("A")..Ord("Z")
    /\ label[30] = Ord(".")
    /\ \E i \in 31..Len(label) : label[i] = Ord(".")
    /\ result.ok
    /\ result.decoded.cgid # {}

(***************************************************************************)
(* C16.  encode_request_data returns a 29-symbol token, one '.', and the   *)
(* fqdn byte for byte, for every fqdn (the empty one, and those with dots, *)
(* slashes or query text); the token does not depend on the fqdn.          *)
(***************************************************************************)
C16_TokenDotFqdn ==
    pc = "encoded"
    => /\ Len(label) = 29 + 1 + Len(given.fqdn)
       /\ \A i \in 1..29 : InAlphabet(label[i])
       /\ label[30] = Ord(".")
       /\ SubSeq(label, 31, Len(label)) = given.fqdn
       /\ SubSeq(label, 1, 29)
            = SubSeq(encode_request_data(given.client_ip, given.content_group_id,
                                         <<>>), 1, 29)

\* the domain made for a fqdn with a path and query text
C16_Witness ==
    /\ pc = "encoded"
    /\ \E i \in 1..Len(given.fqdn) : given.fqdn[i] = Ord("/")
    /\ \E i \in 1..Len(given.fqdn) : given.fqdn[i] = Ord("?")
    /\ Len(label) = 30 + Len(given.fqdn)
    /\ label[Len(label)] = given.fqdn[Len(given.fqdn)]


(***************************************************************************)
(* C17.  get_mask(n) is 2^n - 1 as a u64, the low n bits set and every     *)
(* higher bit zero, for every n in 0..64: 0 for n = 0, all 64 bits for     *)
(* n = 64, without overflow.                                               *)
(***************************************************************************)
C17_GetMask ==
    (pc = "masked" /\ given <= 64)
    => /\ result.faults = {}
       /\ result.value = {i \in 0..63 : i < given}
       /\ given <= 30 => LowValue(result.value, 0) = 2^given - 1

\* get_mask(64) has returned u64::MAX
C17_Witness ==
    /\ pc = "masked"
    /\ given = 64
    /\ result.value = 0..63
    /\ result.faults = {}


(***************************************************************************)
(* C18.  parse_client_ip keeps the subnet prefix: for an IPv4 address      *)
(* a.b.c.d the subnet bytes are [a,b,c,0,0,0,0,0], the mask 24 and is_ipv6 *)
(* 0; for an IPv6 address the subnet bytes are the first 6 address bytes   *)
(* and two zero bytes, the mask 48 and is_ipv6 1; for unparseable input    *)
(* all three are 0.  So the token of encode_request_data is that of the    *)
(* address with its host bytes zeroed.                                     *)
(***************************************************************************)
C18_SubnetPrefix ==
    /\ pc = "parsed"
       => /\ ToBeBytes(result.data.client_subnet) = SubnetBytes(given)
          /\ result.data.client_subnet \subseteq U64Bits
          /\ result.data.subnet_mask =
                OfNat(CASE given.kind = "v4" -> 24 [] given.kind = "v6" -> 48
                        [] OTHER -> 0)
          /\ result.data.is_ipv6 = OfNat(IF given.kind = "v6" THEN 1 ELSE 0)
    /\ pc = "requested"
       => label = encode_request_data(HostZeroed(given), result.content_group_id,
                                      result.fqdn)

\* the domain made for an IPv4 address whose last byte is not 0, and that of
\* an IPv6 address whose last ten bytes are not 0
C18_Witness ==
    /\ pc = "requested"
    /\ \/ given.kind = "v4" /\ given.octets[4] = 200 /\ given.octets[3] = 1
       \/ given.kind = "v6" /\ given.octets[7] = 255 /\ given.octets[6] = 18
    /\ given # HostZeroed(given)
    /\ result.content_group_id = "SM89P"
    /\ label = encode_request_data(HostZeroed(given), result.content_group_id,
                                   result.fqdn)


(***************************************************************************)
(* C19.  Encode is the reference bitstream packing: for a field list with  *)
(* widths w_i <= 64 and values v_i < 2^w_i, symbol k of the token is       *)
(* alphabet[x], x being bits [5k, 5k+5) of the concatenation, in field     *)
(* order, of each v_i written as w_i bits most significant first, padded   *)
(* with zeros to a multiple of 5.                                          *)
(***************************************************************************)
C19_ReferencePacking ==
    (/\ pc = "encoded"
     /\ InWidth(given)
     /\ \A i \in 1..Len(given) : given[i].num_bits <= 64)
    => label = ReferenceToken(given)

\* the token of a three-field list whose middle field, of alternating bits,
\* starts inside one symbol and ends inside a later one
C19_Witness ==
    /\ pc = "encoded"
    /\ InWidth(given)
    /\ Len(given) = 3
    /\ Straddles(given, 2)
    /\ given[2].num_bits >= 3
    /\ given[2].value = EvenBits \cap get_mask(given[2].num_bits)
    /\ given[3].num_bits > 0
    /\ Len(label) >= 2
    /\ label = ReferenceToken(given)


(***************************************************************************)
(* C20.  Padding law, decode side: the field values decode leaves do not   *)
(* depend on the 5 * ceil(T / 5) - T low-order bits of the last symbol: a  *)
(* label of the valid length decodes to the values of the label whose last *)
(* symbol has those bits cleared.                                          *)
(***************************************************************************)
C20_DecodePadIgnored ==
    (pc = "decoded" /\ Len(label) = CeilDiv5(TotalBits(given)))
    => /\ result.ok
       /\ encodable_data =
            Base32_decode(given, PadCleared(label, TotalBits(given)),
                          U8(TotalBits(given))).data

\* a decoded label whose last symbol has a pad bit set, read into a list
\* whose last field ends up non-zero
C20_Witness ==
    /\ pc = "decoded"
    /\ given # <<>>
    /\ Len(label) = CeilDiv5(TotalBits(given))
    /\ TotalBits(given) % 5 # 0
    /\ PadCleared(label, TotalBits(given)) # label
    /\ InAlphabet(label[Len(label)])
    /\ result.ok
    /\ encodable_data[Len(given)].value # {}



(***************************************************************************)
(* Extraction scenario: one field of any width 0..64, holding any of the   *)
(* sampled values (values wider than the field included), is asked for     *)
(* bits again and again, as Base32::encode and the documentation example   *)
(* of get_next_bits_to_encode do.  The caller keeps the bits it was given, *)
(* most significant first.                                                 *)
(***************************************************************************)
ExtractValues == {{}, AllOnes, EvenBits, OddBits, OfNat(10), {0, 3, 4, 9, 17, 33, 62}}

InitBits ==
    /\ pc = "field"
    /\ \E v \in ExtractValues, n \in 0..64 :
          /\ encodable_data = <<EncodableData(v, n)>>
          /\ given = [data |-> EncodableData(v, n), taken |-> {}]
    /\ label = <<>>
    /\ result = [op |-> "none"]

\* encodable_data[1].get_next_bits_to_encode(num_bits_needed); the function
\* is documented for 1..8 bits, at most the bits the field has left
GetNextBits(num_bits_needed) ==
    /\ pc \in {"field", "taken"}
    /\ num_bits_needed <= encodable_data[1].num_bits
    /\ LET r == get_next_bits_to_encode(encodable_data[1], num_bits_needed)
       IN  /\ encodable_data' = <<r.data>>
           /\ given' = [given EXCEPT !.taken =
                           Shl(@, num_bits_needed, 64) \cup OfU8(r.bits)]
           /\ result' = [op |-> "get_next_bits", before |-> encodable_data[1],
                         num_bits_needed |-> num_bits_needed,
                         bits |-> r.bits, faults |-> r.faults]
    /\ pc' = "taken"
    /\ UNCHANGED label

NextBits == \E num_bits_needed \in 1..8 : GetNextBits(num_bits_needed)

SpecBits == InitBits /\ [][NextBits]_vars

(***************************************************************************)
(* C21: get_next_bits_to_encode(k) on a field of n <= 64 bits, with        *)
(* 1 <= k <= min(n, 8), returns bits [n-k, n) of the value as the low k    *)
(* bits of the result, leaves num_bits = n - k and value = value &         *)
(* mask(n - k); so extractions that add up to n bits, put one after the    *)
(* other most significant first, are value & mask(n), and leave value 0    *)
(* and num_bits 0.                                                         *)
(***************************************************************************)
C21_GetNextBits ==
    result.op = "get_next_bits" =>
        LET before == result.before
            k == result.num_bits_needed
            n == before.num_bits
            after == encodable_data[1]
        IN  /\ result.faults = {}
            /\ OfU8(result.bits)
                 = {i - (n - k) : i \in before.value \cap ((n - k)..(n - 1))}
            /\ after.num_bits = n - k
            /\ after.value = before.value \cap (0..(n - k - 1))
            /\ after.num_bits = 0 =>
                  /\ given.taken
                       = given.data.value \cap (0..(given.data.num_bits - 1))
                  /\ after.value = {}

\* the documented example: value 10 in 6 bits gives 2 for 4 bits, then 2 for
\* the last 2 bits
C21_Witness ==
    /\ pc = "taken"
    /\ given.data = EncodableData(OfNat(10), 6)
    /\ result.before = EncodableData(OfNat(2), 2)
    /\ result.num_bits_needed = 2
    /\ result.bits = 2
    /\ given.taken = OfNat(10)
    /\ encodable_data[1] = EncodableData({}, 0)


(***************************************************************************)
(* C22: after Base32::decode returns Ok every field has the num_bits it    *)
(* had before the call, so the list can be decoded into again with the     *)
(* same total_num_bits (and then yields the same values).                  *)
(***************************************************************************)
C22_DecodeKeepsWidths ==
    (pc = "decoded" /\ result.ok)
    => /\ Len(encodable_data) = Len(given)
       /\ \A i \in 1..Len(given) : encodable_data[i].num_bits = given[i].num_bits
       /\ LET again == Base32_decode(encodable_data, label, U8(TotalBits(given)))
          IN  /\ again.ok
              /\ again.faults = {}
              /\ again.data = encodable_data

\* three fields of non-zero width decoded from a two-symbol label, the
\* second field read from both symbols
C22_Witness ==
    /\ pc = "decoded"
    /\ result.ok
    /\ Len(given) = 3
    /\ given[1].num_bits = 3
    /\ given[2].num_bits = 4
    /\ given[3].num_bits = 2
    /\ Len(label) = 2
    /\ encodable_data[2].value # {}
    /\ encodable_data[2].num_bits = 4

(***************************************************************************)
(* C23: the values Base32::decode leaves do not depend on the values the   *)
(* fields held before: for the same label and the same widths, a list      *)
(* that held values ends with the values of the list that held zeros.      *)
(***************************************************************************)
C23_PriorValuesIgnored ==
    (pc = "decoded" /\ result.ok)
    => encodable_data
         = Base32_decode(FreshFields(given), label, U8(TotalBits(given))).data

\* fields that held all-ones values wider than themselves, decoded from a
\* label with a zero symbol and a non-zero one
C23_Witness ==
    /\ pc = "decoded"
    /\ result.ok
    /\ Len(given) = 2
    /\ given[1] = EncodableData(AllOnes, 5)
    /\ given[2] = EncodableData(AllOnes, 3)
    /\ label = <<97, 55>>
    /\ encodable_data[1].value = {}
    /\ encodable_data[2].value = 0..2


(***************************************************************************)
(* The codec step by step: Base32::encode and Base32::decode run one loop  *)
(* iteration at a time on a field list of the caller.  result holds the    *)
(* position: i, the field the for loop is at, and st, the locals.  An      *)
(* index out of range panics in every build; an arithmetic overflow panics *)
(* in a build with overflow checks and wraps in one without.               *)
(***************************************************************************)
StepWidths == {0, 3, 5, 7, 64, 200}

StepFields == {EncodableData(v, w) : v \in {{}, AllOnes}, w \in StepWidths}

\* lists of up to two fields, four fields of 63 bits, the default label's list
StepLists ==
    {<<>>} \cup {<<f>> : f \in StepFields}
    \cup {<<f, g>> : f \in StepFields, g \in StepFields}
    \cup {[i \in 1..4 |-> EncodableData({}, 63)], ClientRoutingLabel_default}

\* the field the for loop works on next (none after the last)
FieldAt(fields, i) ==
    IF i <= Len(fields) THEN fields[i] ELSE EncodableData({}, 0)

InitSteps ==
    /\ pc = "args"
    /\ \E fields \in StepLists :
          /\ encodable_data = fields
          /\ given = [fields |-> fields, total_num_bits |-> 0]
    /\ label = <<>>
    /\ result = [op |-> "none"]

\* lines 54-57
EncodeStart ==
    /\ pc = "args"
    /\ result' = [op |-> "encode", i |-> 1,
                  st |-> [data |-> FieldAt(encodable_data, 1),
                          value_to_encode |-> 0,
                          num_bits_left_over |-> 0,
                          encoded_data |-> <<>>,
                          emitted |-> <<>>,
                          faults |-> {}]]
    /\ pc' = "encoding"
    /\ UNCHANGED <<encodable_data, given, label>>

\* lines 59-65, one iteration
EncodeWhileStep ==
    /\ pc = "encoding"
    /\ result.i <= Len(encodable_data)
    /\ "index" \notin result.st.faults
    /\ has_bits_for_char(result.st.data, EncodeNeed(result.st))
    /\ result' = [result EXCEPT !.st = EncodeIter(result.st)]
    /\ UNCHANGED <<pc, encodable_data, given, label>>

\* lines 67-68, and on to the next field
EncodeFoldStep ==
    /\ pc = "encoding"
    /\ result.i <= Len(encodable_data)
    /\ "index" \notin result.st.faults
    /\ ~has_bits_for_char(result.st.data, EncodeNeed(result.st))
    /\ LET s == EncodeFold(result.st) IN
         /\ encodable_data' = [encodable_data EXCEPT ![result.i] = s.data]
         /\ result' = [result EXCEPT
                          !.i = result.i + 1,
                          !.st = [s EXCEPT !.data =
                                     FieldAt(encodable_data, result.i + 1)]]
    /\ UNCHANGED <<pc, given, label>>

\* lines 71-75
EncodeReturn ==
    /\ pc = "encoding"
    /\ result.i > Len(encodable_data)
    /\ "index" \notin result.st.faults
    /\ label' = IF result.st.num_bits_left_over > 0
                THEN Append(result.st.encoded_data,
                            AlphabetAt(result.st.value_to_encode))
                ELSE result.st.encoded_data
    /\ pc' = IF result.st.num_bits_left_over > 0 /\ result.st.value_to_encode >= 32
             THEN "panicked" ELSE "returned"
    /\ UNCHANGED <<encodable_data, given, result>>

\* decode(encodable_data, a label of n bytes '7', total_num_bits): lines
\* 172-182
DecodeStart(n, total_num_bits) ==
    /\ pc = "args"
    /\ label' = [k \in 1..n |-> 55]
    /\ given' = [given EXCEPT !.total_num_bits = total_num_bits]
    /\ LET valid == is_valid_client_routing_label(total_num_bits, label') IN
         result' = [op |-> "decode", i |-> 1, ok |-> valid.ok,
                    st |-> [data |-> EncodableData({},
                                        FieldAt(encodable_data, 1).num_bits),
                            label_values |-> LabelValues(label'),
                            num_bits_in_char |-> BASE32_NUM_BITS_IN_CHAR,
                            label_index |-> 0,
                            faults |-> valid.faults]]
    /\ pc' = "checked"
    /\ UNCHANGED encodable_data

\* lines 172-175: the match on the length check
DecodeChecked ==
    /\ pc = "checked"
    /\ pc' = IF result.ok THEN "decoding" ELSE "returned"
    /\ UNCHANGED <<encodable_data, given, label, result>>

\* lines 188-192, one iteration
DecodeWhileStep ==
    /\ pc = "decoding"
    /\ result.i <= Len(encodable_data)
    /\ "index" \notin result.st.faults
    /\ has_bits_for_char(result.st.data, result.st.num_bits_in_char)
    /\ result' = [result EXCEPT !.st = DecodeIter(result.st)]
    /\ UNCHANGED <<pc, encodable_data, given, label>>

\* lines 194-200, and on to the next field
DecodePartialStep ==
    /\ pc = "decoding"
    /\ result.i <= Len(encodable_data)
    /\ "index" \notin result.st.faults
    /\ ~has_bits_for_char(result.st.data, result.st.num_bits_in_char)
    /\ LET s == DecodePartial(result.st)
           original_num_bits == encodable_data[result.i].num_bits
       IN
         /\ encodable_data' = [encodable_data EXCEPT ![result.i] =
                                  EncodableData(s.data.value, original_num_bits)]
         /\ result' = [result EXCEPT
                          !.i = result.i + 1,
                          !.st = [s EXCEPT !.data =
                                     EncodableData({},
                                        FieldAt(encodable_data, result.i + 1).num_bits)]]
    /\ UNCHANGED <<pc, given, label>>

\* line 203
DecodeReturn ==
    /\ pc = "decoding"
    /\ result.i > Len(encodable_data)
    /\ "index" \notin result.st.faults
    /\ pc' = "returned"
    /\ UNCHANGED <<encodable_data, given, label, result>>

\* the panic of a faulting step
Panic ==
    /\ pc \in {"encoding", "checked", "decoding"}
    /\ result.st.faults # {}
    /\ pc' = "panicked"
    /\ UNCHANGED <<encodable_data, given, label, result>>

\* the totals a caller passes: the sum of the widths (as a u8), or 5
StepTotals == {U8(SumBits(encodable_data, 1)), 5}

\* the label lengths a caller passes: none, one, the length for the total
StepLens(total_num_bits) == {0, 1, (total_num_bits + 4) \div 5}

NextSteps ==
    \/ EncodeStart
    \/ EncodeWhileStep
    \/ EncodeFoldStep
    \/ EncodeReturn
    \/ \E total_num_bits \in StepTotals :
          \E n \in StepLens(total_num_bits) : DecodeStart(n, total_num_bits)
    \/ DecodeChecked
    \/ DecodeWhileStep
    \/ DecodePartialStep
    \/ DecodeReturn
    \/ Panic

SpecSteps == InitSteps /\ [][NextSteps]_vars

\* a call that has started keeps running
FairSteps == SpecSteps /\ WF_vars(NextSteps)

(***************************************************************************)
(* C24: Base32::encode and Base32::decode terminate for every field list   *)
(* and token: every iteration of the inner while loop asks for at least 1  *)
(* bit (5 - leftover in encode, num_bits_in_char in decode) and strictly   *)
(* decreases the current field's num_bits, the outer loop goes from a      *)
(* field to the next one, and every call ends (returns or panics).         *)
(***************************************************************************)
C24_Terminates ==
    /\ [][/\ (pc = "encoding" /\ pc' = "encoding" /\ result'.i = result.i)
             => /\ EncodeNeed(result.st) >= 1
                /\ result'.st.data.num_bits < result.st.data.num_bits
          /\ (pc = "decoding" /\ pc' = "decoding" /\ result'.i = result.i)
             => /\ result.st.num_bits_in_char >= 1
                /\ result'.st.data.num_bits < result.st.data.num_bits
          /\ (pc \in {"encoding", "decoding"} /\ pc' = pc)
             => /\ result'.i \in {result.i, result.i + 1}
                /\ result'.i <= Len(encodable_data) + 1
         ]_vars
    /\ <>(pc \in {"returned", "panicked"})

\* a decode of the default label's list that returned after 29 symbols
C24_Witness ==
    /\ pc = "returned"
    /\ result.op = "decode"
    /\ result.ok
    /\ given.fields = ClientRoutingLabel_default
    /\ result.i = 6
    /\ result.st.label_index = 29


(***************************************************************************)
(* C25: no out-of-range step in the codec.  For a field list with widths   *)
(* <= 64, encode never asks a field for more bits than it has left         *)
(* (num_bits stays within 0..width) and the leftover fold never shifts by  *)
(* a negative amount; decode, called with total_num_bits the sum of the    *)
(* widths and a label that passed the length check, never reads            *)
(* label_values at an index >= the label's length and never takes          *)
(* num_bits or num_bits_in_char below 0.                                   *)
(***************************************************************************)
C25_NoOutOfRange ==
    (\A k \in 1..Len(given.fields) : given.fields[k].num_bits <= 64)
    => /\ pc = "encoding"
          => /\ result.st.num_bits_left_over \in 0..4
             /\ result.st.data.num_bits
                  \in 0..FieldAt(given.fields, result.i).num_bits
             /\ ~has_bits_for_char(result.st.data, EncodeNeed(result.st))
                  => BASE32_NUM_BITS_IN_CHAR
                       - (result.st.data.num_bits + result.st.num_bits_left_over)
                     \in 0..BASE32_NUM_BITS_IN_CHAR
             /\ "overflow" \notin result.st.faults
       /\ (pc = "decoding"
           /\ given.total_num_bits = SumBits(given.fields, 1))
          => /\ "index" \notin result.st.faults
             /\ result.st.data.num_bits
                  \in 0..FieldAt(given.fields, result.i).num_bits
             /\ result.st.num_bits_in_char \in 1..BASE32_NUM_BITS_IN_CHAR


(***************************************************************************)
(* C26: after a successful Base32::decode every field of width w <= 64     *)
(* holds a value below 2^w; so a default label decoded from any 29 bytes   *)
(* has client_sdk_version <= 1023 and subnet_mask <= 63, and the           *)
(* conversions to u16 and u8 of the decoded record lose no bits.           *)
(***************************************************************************)
C26_DecodedInWidth ==
    (pc = "decoded" /\ result.ok)
    => /\ \A i \in 1..Len(encodable_data) :
             encodable_data[i].value \subseteq 0..(encodable_data[i].num_bits - 1)
       /\ FreshFields(given) = FreshFields(ClientRoutingLabel_default)
          => LET d == get_decoded_client_routing_label(encodable_data) IN
               /\ Len(label) = 29
               /\ d.client_sdk_version <= 1023
               /\ d.subnet_mask <= 63
               /\ OfNat(d.client_sdk_version) = encodable_data[1].value
               /\ OfU8(d.subnet_mask) = encodable_data[4].value

\* the default label decoded from 28 bytes '7' and one byte outside the
\* alphabet: the version and the mask are the largest their widths allow
C26_Witness ==
    /\ pc = "decoded"
    /\ result.ok
    /\ given = ClientRoutingLabel_default
    /\ \E i \in 1..29 :
          /\ label[i] = 255
          /\ \A j \in (1..29) \ {i} : label[j] = 55
    /\ get_decoded_client_routing_label(encodable_data).client_sdk_version = 1023
    /\ get_decoded_client_routing_label(encodable_data).subnet_mask = 63


(***************************************************************************)
(* The token scenario: a 29-symbol token over the alphabet (one symbol     *)
(* repeated, with at most one position replaced by any other symbol) is    *)
(* decoded into the default label's list, and the list, with its decoded   *)
(* values, is encoded.                                                     *)
(***************************************************************************)
\* the repeated symbols: 'a' (00000), '7' (11111), 'k' (01010), 'v' (10101)
TokenSymbols == {BASE32_ALPHABET[k] : k \in {1, 32, 11, 22}}

InitToken ==
    /\ pc = "token"
    /\ \E c \in TokenSymbols : label = [i \in 1..29 |-> c]
    /\ given = ClientRoutingLabel_default
    /\ encodable_data = ClientRoutingLabel_default
    /\ result = [op |-> "none"]

\* symbol i of the token becomes c
ReplaceSymbol(i, c) ==
    /\ pc = "token"
    /\ label[i] # c
    /\ label' = [label EXCEPT ![i] = c]
    /\ pc' = "written"
    /\ UNCHANGED <<given, encodable_data, result>>

\* Base32 {}.decode(encodable_data, token, 145)
DecodeToken ==
    /\ pc \in {"token", "written"}
    /\ LET r == Base32_decode(encodable_data, label,
                              get_total_num_bits(encodable_data))
       IN  /\ encodable_data' = r.data
           /\ result' = [op |-> "decode", ok |-> r.ok, faults |-> r.faults]
    /\ pc' = "decoded"
    /\ UNCHANGED <<given, label>>

\* Base32 {}.encode of a list of the same widths holding the decoded values
EncodeDecoded ==
    /\ pc = "decoded"
    /\ result.ok
    /\ LET fresh == [i \in 1..Len(given) |->
                        EncodableData(encodable_data[i].value, given[i].num_bits)]
           e == Base32_encode(fresh)
       IN  /\ encodable_data' = e.data
           /\ result' = [op |-> "encode", token |-> e.token,
                         decoded |-> fresh, faults |-> e.faults]
    /\ pc' = "encoded"
    /\ UNCHANGED <<given, label>>

NextToken ==
    \/ \E i \in 1..29, k \in 1..32 : ReplaceSymbol(i, BASE32_ALPHABET[k])
    \/ DecodeToken
    \/ EncodeDecoded

SpecToken == InitToken /\ [][NextToken]_vars

(***************************************************************************)
(* C27: on the default schema (widths 10, 1, 64, 6, 64; 145 = 29 * 5 bits, *)
(* no padding) decode and encode are inverse on alphabet tokens: decoding  *)
(* a 29-symbol token into fresh fields and encoding the decoded values     *)
(* with fresh fields of the same widths returns the token.                 *)
(***************************************************************************)
C27_TokenRoundTrip ==
    /\ pc = "decoded" => (result.ok /\ result.faults = {})
    /\ pc = "encoded"
       => /\ result.faults = {}
          /\ result.token = label

\* a token of '7's with one 'k' (01010) in the symbol that holds the first
\* five bits of the mask, decoded (mask 010101) and encoded back
C27_Witness ==
    /\ pc = "encoded"
    /\ label = [i \in 1..29 |-> IF i = 16 THEN BASE32_ALPHABET[11]
                                ELSE BASE32_ALPHABET[32]]
    /\ result.token = label
    /\ AsU8(result.decoded[4].value) = 21
    /\ result.decoded[2].value = {0}

=============================================================================
